---- MODULE Spec2Model ----
(***************************************************************************)
(* ureq-async: async wrappers for ureq::Request (src/src/lib.rs).          *)
(*                                                                         *)
(* Every facade operation is an async fn whose body is                     *)
(*     blocking::unblock(move || self.<blocking entry point>(..)).await    *)
(* The model has one cooperative scheduler thread (the caller's tasks and  *)
(* an unrelated counter task), the blocking pool's threads, and for        *)
(* send_async the ReadProxy adapter that drives the async source with      *)
(* block_on from whatever thread calls io::Read::read on it.               *)
(*                                                                         *)
(* Collaborators are modelled by their contracts at the place the source   *)
(* uses them: blocking::unblock queues the closure at once and returns an  *)
(* async_task::Task (dropping a Task cancels it: a closure no pool thread  *)
(* has started yet is dropped unrun, a running one cannot be interrupted;  *)
(* a closure that panics makes the await of the Task panic);               *)
(* futures_lite::block_on parks the calling thread until the future is     *)
(* ready; AsyncReadExt::read yields at most buf.len() bytes of what the    *)
(* source has ready, Ok(0) at end of stream, or the source's io::Error.    *)
(***************************************************************************)
EXTENDS Integers, Sequences, FiniteSets, TLC

\* Bounds of the model: the bytes a source produces, the length of a read
\* buffer, the steps of the unrelated task.
MaxBytes == 2
MaxBuf == 2
MaxTicks == 2

\* The requests: Spec uses the first, Concurrent both.
Calls == {1, 2}

VARIABLES
    op,          \* op[c]: the facade operation called on request c ("none" before)
    payload,     \* payload[c]: the payload moved into the future
    caller,      \* caller[c]: the calling task's position around the await
    job,         \* job[c]: the closure's position in the pool
    thr,         \* thr[c]: the thread the closure runs on
    submits,     \* submits[c]: closures handed to blocking::unblock
    calls,       \* calls[c]: invocations of the blocking entry point
    arg,         \* arg[c]: what the blocking entry point was invoked with
    ev,          \* ev[c]: <<kind, thread>> of every blocking step taken
    src,         \* src[c]: the async source's remaining output (send_async)
    buf,         \* buf[c]: length of the buffer of the read in progress
    seen,        \* seen[c]: bytes the library has obtained through read
    lastRead,    \* lastRead[c]: what the last read returned
    libRes,      \* libRes[c]: the Result the blocking call returned
    got,         \* got[c]: the value the await produced in the caller
    resolutions, \* resolutions[c]: times the await produced a value
    dropStage,   \* dropStage[c]: job[c] at the moment the future was dropped
    ticks,       \* the unrelated cooperative task's counter
    owner,       \* owner[c]: where request c and its payload live
    feeder,      \* feeder[c]: who makes the async source ready
    blockedOn    \* the call the scheduler thread waits for synchronously (0: none)

vars == <<op, payload, caller, job, thr, submits, calls, arg, ev, src, buf,
          seen, lastRead, libRes, got, resolutions, dropStage, ticks, owner,
          feeder, blockedOn>>

----------------------------------------------------------------------------
\* Values.

Min(a, b) == IF a < b THEN a ELSE b

RECURSIVE Flatten(_)
Flatten(ss) == IF ss = <<>> THEN <<>> ELSE Head(ss) \o Flatten(Tail(ss))

\* Result<ureq::Response, ureq::Error>, tagged with the request it answers.
None == [tag |-> "None", val |-> "", req |-> 0]
Ok(c, v) == [tag |-> "Ok", val |-> v, req |-> c]
Err(c, e) == [tag |-> "Err", val |-> e, req |-> c]

Responses == {"200", "201"}
NetErrors == {"Transport", "Status"}
IoErrors == {"BrokenPipe", "TimedOut"}

\* An async byte source: the chunks it will produce, then end-of-stream or an
\* io::Error. The bytes are 1, 2, .. so that order and loss are visible.
Bytes(n) == [i \in 1..n |-> i]

RECURSIVE Chunkings(_)
Chunkings(s) ==
    IF s = <<>> THEN {<<>>}
    ELSE UNION {{<<SubSeq(s, 1, k)>> \o t : t \in Chunkings(SubSeq(s, k + 1, Len(s)))}
                : k \in 1..Len(s)}

Sources ==
    UNION {{[chunks |-> ch, end |-> e] : ch \in Chunkings(Bytes(n)),
                                         e \in {"EOF"} \cup IoErrors}
           : n \in 0..MaxBytes}

\* An owned string-like value (S: AsRef<str>) and the &str it lends.
Owned(s) == [owned |-> s]
as_ref(x) == x.owned

FormInputs == {<<>>, <<<<Owned("a"), Owned("1")>>, <<Owned("b"), Owned("2")>>>>}

NoPayload == [kind |-> "none"]
NoSrc == [chunks |-> <<>>, end |-> "EOF", ready |-> TRUE]
NoRead == [tag |-> "None", n |-> 0, data |-> <<>>, err |-> "", atEnd |-> FALSE,
           wasReady |-> FALSE, parked |-> FALSE]
NoArg == [entry |-> "none"]

----------------------------------------------------------------------------
\* The collaborators' contracts, as the source uses them.

\* Faulty variant: the closure is run in place, on the thread that polls.
SubmitInline == "sched"
\* blocking::unblock runs the closure on a thread of the blocking pool.
SubmitThread == "pool"

\* Faulty variant: the source is driven on the scheduler thread.
AdapterOnScheduler(c) == "sched"
\* block_on(..) in ReadProxy::read parks the thread that called read: the one
\* running the closure.
AdapterThread(c) == thr[c]

\* The scheduler thread is occupied by a blocking step: no cooperative task
\* can be polled meanwhile.
SchedulerBlocked ==
    \/ \E c \in Calls : thr[c] = "sched" /\ job[c] \in {"queued", "running", "reading"}
    \/ blockedOn # 0

\* AsyncReadExt::read(buf) on a source that is ready: up to buf.len() bytes of
\* the chunk at hand, Ok(0) at end of stream, or the source's error.
AsyncRead_read(s, n) ==
    IF s.chunks = <<>>
    THEN IF s.end = "EOF"
         THEN [tag |-> "Ok", data |-> <<>>, err |-> "", chunks |-> <<>>]
         ELSE [tag |-> "Err", data |-> <<>>, err |-> s.end, chunks |-> <<>>]
    ELSE LET h == Head(s.chunks)
             k == Min(n, Len(h))
         IN [tag |-> "Ok", data |-> SubSeq(h, 1, k), err |-> "",
             chunks |-> IF k = Len(h) THEN Tail(s.chunks)
                        ELSE <<SubSeq(h, k + 1, Len(h))>> \o Tail(s.chunks)]

\* Faulty variants of ReadProxy::read: the bytes read are returned but the
\* source is read again from the same place; a source that is not ready, or
\* one that fails, is taken for end of stream.
ReadProxy_read_again(s, n) ==
    IF ~s.ready THEN [tag |-> "Parked", data |-> <<>>, err |-> "", chunks |-> s.chunks]
    ELSE [AsyncRead_read(s, n) EXCEPT !.chunks = s.chunks]
ReadProxy_read_wouldblock(s, n) ==
    IF ~s.ready THEN [tag |-> "Ok", data |-> <<>>, err |-> "", chunks |-> s.chunks]
    ELSE AsyncRead_read(s, n)
ReadProxy_read_swallow(s, n) ==
    IF ~s.ready THEN [tag |-> "Parked", data |-> <<>>, err |-> "", chunks |-> s.chunks]
    ELSE LET r == AsyncRead_read(s, n)
         IN IF r.tag = "Err" THEN [r EXCEPT !.tag = "Ok", !.err = ""] ELSE r

\* ReadProxy::read: block_on(self.reader.read(buf)). The thread stays parked
\* while the source is not ready; the future's output is returned as it is.
ReadProxy_read(s, n) ==
    IF ~s.ready THEN [tag |-> "Parked", data |-> <<>>, err |-> "", chunks |-> s.chunks]
    ELSE AsyncRead_read(s, n)

\* The blocking entry point each operation's closure invokes, and its argument.
\* Faulty variant: names and values change places.
form_refs_swapped(form) == [i \in 1..Len(form) |-> <<as_ref(form[i][2]), as_ref(form[i][1])>>]
\* send_form_async: form.iter().map(|(k, v)| (k.as_ref(), v.as_ref())).collect()
form_refs(form) == [i \in 1..Len(form) |-> <<as_ref(form[i][1]), as_ref(form[i][2])>>]

EntryArg(o, p) ==
    CASE o = "call_async" -> [entry |-> "call"]
      [] o = "send_async" -> [entry |-> "send", reader |-> "ReadProxy"]
      [] o = "send_json_async" -> [entry |-> "send_json", data |-> p.data]
      [] o = "send_bytes_async" -> [entry |-> "send_bytes", data |-> p.data]
      [] o = "send_string_async" -> [entry |-> "send_string", data |-> p.data]
      [] o = "send_form_async" -> [entry |-> "send_form", data |-> form_refs(p.data)]

\* The blocking steps the closure takes when it starts: the entry point, and
\* for send_json the serialization inside it.
StartEvents(o, t) ==
    {<<"call", t>>} \cup (IF o = "send_json_async" THEN {<<"serialize", t>>} ELSE {})

\* Faulty variant: a failure is turned into a response.
FacadeResult_swallow(r) == IF r.tag = "Err" THEN [r EXCEPT !.tag = "Ok", !.val = "200"] ELSE r
\* `.await` on the Task hands the closure's return value to the caller.
FacadeResult(r) == r

\* Faulty variant: a closure that panics never wakes the awaiting task.
Resolved_on_return(c) == job[c] = "done"
\* Faulty variant: the Task is ready as soon as the closure has started.
Resolved_early(c) == job[c] \in {"running", "reading", "done", "aborted"}
\* The Task is ready once the closure has returned or panicked.
Resolved(c) == job[c] \in {"done", "aborted"}

\* Faulty variant: a panicked closure is reported as a request error.
Task_poll_fabricate(c) ==
    IF job[c] = "aborted"
    THEN [caller |-> "resumed", got |-> Err(c, "Transport")]
    ELSE [caller |-> "resumed", got |-> FacadeResult(libRes[c])]
\* Faulty variant: every call reads its result from one shared place.
Task_poll_shared(c) ==
    IF job[c] = "aborted"
    THEN [caller |-> "panicked", got |-> None]
    ELSE [caller |-> "resumed", got |-> FacadeResult(libRes[1])]
\* Polling a ready Task: the closure's output, or a panic in the awaiting task
\* when the closure panicked.
Task_poll(c) ==
    IF job[c] = "aborted"
    THEN [caller |-> "panicked", got |-> None]
    ELSE [caller |-> "resumed", got |-> FacadeResult(libRes[c])]

\* Faulty variant: dropping the Task also stops a closure that has started.
Task_drop_abort(stage) == IF stage \in {"queued", "running", "reading"} THEN "cancelled" ELSE stage
\* Dropping the future drops the Task, which cancels it: a closure still in
\* the pool's queue is dropped unrun; one that has started is not touched.
Task_drop(stage) == IF stage = "queued" THEN "cancelled" ELSE stage

\* Faulty variant: a completed future is polled again.
Pollable_again(c) == caller[c] \in {"suspended", "resumed"}
\* A future is polled until it has completed.
Pollable(c) == caller[c] = "suspended"

----------------------------------------------------------------------------
\* State after construction: nothing has been called.

Init ==
    /\ op = [c \in Calls |-> "none"]
    /\ payload = [c \in Calls |-> NoPayload]
    /\ caller = [c \in Calls |-> "idle"]
    /\ job = [c \in Calls |-> "none"]
    /\ thr = [c \in Calls |-> "none"]
    /\ submits = [c \in Calls |-> 0]
    /\ calls = [c \in Calls |-> 0]
    /\ arg = [c \in Calls |-> NoArg]
    /\ ev = [c \in Calls |-> {}]
    /\ src = [c \in Calls |-> NoSrc]
    /\ buf = [c \in Calls |-> 0]
    /\ seen = [c \in Calls |-> <<>>]
    /\ lastRead = [c \in Calls |-> NoRead]
    /\ libRes = [c \in Calls |-> None]
    /\ got = [c \in Calls |-> None]
    /\ resolutions = [c \in Calls |-> 0]
    /\ dropStage = [c \in Calls |-> "none"]
    /\ ticks = 0
    /\ owner = [c \in Calls |-> "caller"]
    /\ feeder = [c \in Calls |-> "none"]
    /\ blockedOn = 0

poolVars == <<job, thr, submits, calls, arg, ev, src, buf, seen, lastRead, libRes>>
awaitVars == <<got, resolutions, dropStage>>

----------------------------------------------------------------------------
\* The facade operations. Calling an async fn only builds the future: the
\* request and the payload are moved into it and nothing runs yet.

\* Faulty variant: the request is borrowed and can be used again.
Unused_or_finished(c) == caller[c] \in {"idle", "resumed"}
\* Every operation takes self by value: a request is there to be used until
\* an operation has taken it.
Unused(c) == caller[c] = "idle"

\* Faulty variant: the closure is handed to the pool when the operation is
\* called.
SubmitsWhenBuilt_eager == TRUE
\* An async fn runs none of its body when called.
SubmitsWhenBuilt == FALSE

MakeFutureFed(c, o, p, f) ==
    /\ Unused(c)
    /\ ~SchedulerBlocked
    /\ op' = [op EXCEPT ![c] = o]
    /\ payload' = [payload EXCEPT ![c] = p]
    /\ feeder' = [feeder EXCEPT ![c] = f]
    /\ caller' = [caller EXCEPT ![c] = "created"]
    /\ owner' = [owner EXCEPT ![c] = IF SubmitsWhenBuilt THEN "closure" ELSE "future"]
    /\ IF SubmitsWhenBuilt
       THEN /\ submits' = [submits EXCEPT ![c] = @ + 1]
            /\ job' = [job EXCEPT ![c] = "queued"]
            /\ thr' = [thr EXCEPT ![c] = SubmitThread]
       ELSE UNCHANGED <<job, thr, submits>>
    /\ UNCHANGED <<calls, arg, ev, src, buf, seen, lastRead, libRes, awaitVars,
                   ticks, blockedOn>>

MakeFuture(c, o, p) ==
    MakeFutureFed(c, o, p, IF o = "send_async" THEN "external" ELSE "none")

call_async(c) == MakeFuture(c, "call_async", NoPayload)

send_async(c, S) ==
    \E s \in S : MakeFuture(c, "send_async", [kind |-> "reader", data |-> s])

send_json_async(c) == MakeFuture(c, "send_json_async", [kind |-> "json", data |-> "value"])

send_bytes_async(c) == MakeFuture(c, "send_bytes_async", [kind |-> "bytes", data |-> <<1, 2>>])

send_string_async(c) == MakeFuture(c, "send_string_async", [kind |-> "string", data |-> "text"])

send_form_async(c) ==
    \E f \in FormInputs : MakeFuture(c, "send_form_async", [kind |-> "form", data |-> f])

\* The first poll of the future runs the body up to the await:
\* blocking::unblock(closure) queues the closure, and the Task is pending.
Submit(c) ==
    /\ caller[c] = "created"
    /\ ~SchedulerBlocked
    /\ submits' = [submits EXCEPT ![c] = @ + 1]
    /\ job' = [job EXCEPT ![c] = "queued"]
    /\ thr' = [thr EXCEPT ![c] = SubmitThread]
    /\ caller' = [caller EXCEPT ![c] = "suspended"]
    /\ owner' = [owner EXCEPT ![c] = "closure"]
    /\ UNCHANGED <<op, payload, calls, arg, ev, src, buf, seen, lastRead, libRes,
                   awaitVars, ticks, feeder>>

FirstPoll(c) == Submit(c) /\ UNCHANGED blockedOn

\* A later poll, once the Task is ready: the await produces the closure's
\* return value, or the closure's panic surfaces in the awaiting task.
Deliver(c) ==
    /\ Pollable(c)
    /\ Resolved(c)
    /\ LET r == Task_poll(c)
       IN /\ caller' = [caller EXCEPT ![c] = r.caller]
          /\ got' = [got EXCEPT ![c] = r.got]
          /\ resolutions' = [resolutions EXCEPT ![c] = IF r.got = None THEN @ ELSE @ + 1]
    /\ UNCHANGED <<op, payload, poolVars, dropStage, ticks, owner, feeder>>

Poll(c) == ~SchedulerBlocked /\ Deliver(c) /\ UNCHANGED blockedOn

\* The hazard's caller: a task on the scheduler thread waits for the future
\* synchronously (block_on(request.send_async(reader)) or the like): the
\* future is polled, the closure submitted, and the scheduler thread parks
\* until the Task is ready.
SyncWait(c) == Submit(c) /\ blockedOn' = c

SyncReturn(c) == blockedOn = c /\ Deliver(c) /\ blockedOn' = 0

\* send_async with a source that either an outside party makes ready (a
\* socket, a timer thread) or a task of the cooperative scheduler.
send_async_fed(c, S) ==
    \E s \in S, f \in {"external", "sched"} :
        MakeFutureFed(c, "send_async", [kind |-> "reader", data |-> s], f)

\* The caller drops the future (and the Task in it, if there is one).
Drop(c) ==
    /\ caller[c] \in {"created", "suspended"}
    /\ ~SchedulerBlocked
    /\ caller' = [caller EXCEPT ![c] = "dropped"]
    /\ dropStage' = [dropStage EXCEPT ![c] = job[c]]
    /\ job' = [job EXCEPT ![c] = Task_drop(@)]
    /\ owner' = [owner EXCEPT ![c] =
                   IF job'[c] \in {"running", "reading"} THEN @ ELSE "dropped"]
    /\ UNCHANGED <<op, payload, thr, submits, calls, arg, ev, src, buf, seen,
                   lastRead, libRes, got, resolutions, ticks, feeder, blockedOn>>

\* The unrelated cooperative task increments its counter.
OtherTaskStep ==
    /\ ticks < MaxTicks
    /\ ~SchedulerBlocked
    /\ ticks' = ticks + 1
    /\ UNCHANGED <<op, payload, caller, poolVars, awaitVars, owner, feeder, blockedOn>>

----------------------------------------------------------------------------
\* The closure, on the thread that runs it.

\* A thread takes the closure and invokes the blocking entry point.
PoolStart(c) ==
    /\ job[c] = "queued"
    /\ job' = [job EXCEPT ![c] = "running"]
    /\ calls' = [calls EXCEPT ![c] = @ + 1]
    /\ arg' = [arg EXCEPT ![c] = EntryArg(op[c], payload[c])]
    /\ ev' = [ev EXCEPT ![c] = @ \cup StartEvents(op[c], thr[c])]
    /\ \E rdy \in BOOLEAN :
          src' = [src EXCEPT ![c] =
                    IF op[c] = "send_async"
                    THEN [chunks |-> payload[c].data.chunks,
                          end |-> payload[c].data.end, ready |-> rdy]
                    ELSE @]
    /\ UNCHANGED <<op, payload, caller, thr, submits, buf, seen, lastRead, libRes,
                   awaitVars, ticks, owner, feeder, blockedOn>>

\* What a read that returned r leaves behind: the bytes go to the library,
\* the source moves on, and whether its next output is ready is the source's
\* business.
Returned(c, n, r) ==
    /\ seen' = [seen EXCEPT ![c] = @ \o r.data]
    /\ lastRead' = [lastRead EXCEPT ![c] =
                      [tag |-> r.tag, n |-> n, data |-> r.data, err |-> r.err,
                       atEnd |-> src[c].chunks = <<>>, wasReady |-> src[c].ready,
                       parked |-> buf[c] # 0]]
    /\ \E rdy \in (IF r.chunks # <<>> /\ Len(r.chunks) = Len(src[c].chunks)
                   THEN {TRUE} ELSE BOOLEAN) :
          src' = [src EXCEPT ![c] = [@ EXCEPT !.chunks = r.chunks, !.ready = rdy]]
    /\ buf' = [buf EXCEPT ![c] = 0]
    /\ job' = [job EXCEPT ![c] = "running"]

\* The library has more of the body to read.
WantsRead(c) ==
    /\ op[c] = "send_async"
    /\ job[c] = "running"
    /\ ~(lastRead[c].tag = "Err")
    /\ ~(lastRead[c].tag = "Ok" /\ lastRead[c].data = <<>>)

\* The library calls read(buf) on the ReadProxy with a buffer of n bytes.
ReadProxy_call(c, n) ==
    /\ WantsRead(c)
    /\ ev' = [ev EXCEPT ![c] = @ \cup {<<"adapter_wait", AdapterThread(c)>>}]
    /\ LET r == ReadProxy_read(src[c], n)
       IN IF r.tag = "Parked"
          THEN /\ job' = [job EXCEPT ![c] = "reading"]
               /\ buf' = [buf EXCEPT ![c] = n]
               /\ UNCHANGED <<src, seen, lastRead>>
          ELSE Returned(c, n, r)
    /\ UNCHANGED <<op, payload, caller, thr, submits, calls, arg, libRes,
                   awaitVars, ticks, owner, feeder, blockedOn>>

\* The source becomes ready and wakes the parked thread. A source fed by a
\* task of the cooperative scheduler needs the scheduler thread for that.
SourceReady(c) ==
    /\ job[c] = "reading"
    /\ ~src[c].ready
    /\ feeder[c] = "sched" => ~SchedulerBlocked
    /\ src' = [src EXCEPT ![c].ready = TRUE]
    /\ UNCHANGED <<op, payload, caller, job, thr, submits, calls, arg, ev, buf,
                   seen, lastRead, libRes, awaitVars, ticks, owner, feeder, blockedOn>>

\* The parked thread resumes and read returns.
ReadProxy_return(c) ==
    /\ job[c] = "reading"
    /\ src[c].ready
    /\ Returned(c, buf[c], ReadProxy_read(src[c], buf[c]))
    /\ UNCHANGED <<op, payload, caller, thr, submits, calls, arg, ev, libRes,
                   awaitVars, ticks, owner, feeder, blockedOn>>

\* What the blocking call may return from where it stands: a read error is
\* the call's error; a response needs the whole body sent; the network may
\* fail at any point.
Outcomes(c) ==
    IF op[c] = "send_async" /\ lastRead[c].tag = "Err"
    THEN {Err(c, lastRead[c].err)}
    ELSE {Err(c, e) : e \in NetErrors} \cup
         (IF op[c] = "send_async" /\ WantsRead(c) THEN {}
          ELSE {Ok(c, v) : v \in Responses})

\* The blocking call returns and the closure with it.
PoolFinish(c) ==
    /\ job[c] = "running"
    /\ \E r \in Outcomes(c) : libRes' = [libRes EXCEPT ![c] = r]
    /\ job' = [job EXCEPT ![c] = "done"]
    /\ owner' = [owner EXCEPT ![c] = "dropped"]
    /\ UNCHANGED <<op, payload, caller, thr, submits, calls, arg, ev, src, buf,
                   seen, lastRead, awaitVars, ticks, feeder, blockedOn>>

\* The closure panics inside the blocking call.
PoolAbort(c) ==
    /\ job[c] = "running"
    /\ job' = [job EXCEPT ![c] = "aborted"]
    /\ owner' = [owner EXCEPT ![c] = "dropped"]
    /\ UNCHANGED <<op, payload, caller, thr, submits, calls, arg, ev, src, buf,
                   seen, lastRead, libRes, awaitVars, ticks, feeder, blockedOn>>

----------------------------------------------------------------------------
\* One request, every operation, every source and buffer length.
Next ==
    \/ call_async(1)
    \/ send_async(1, Sources)
    \/ send_json_async(1)
    \/ send_bytes_async(1)
    \/ send_string_async(1)
    \/ send_form_async(1)
    \/ FirstPoll(1)
    \/ Poll(1)
    \/ Drop(1)
    \/ OtherTaskStep
    \/ PoolStart(1)
    \/ \E n \in 1..MaxBuf : ReadProxy_call(1, n)
    \/ SourceReady(1)
    \/ ReadProxy_return(1)
    \/ PoolFinish(1)
    \/ PoolAbort(1)

Spec == Init /\ [][Next]_vars

\* The cooperative scheduler keeps polling its ready tasks; nothing is
\* assumed of the pool.
FairSched == Spec /\ WF_vars(OtherTaskStep)

\* The awaiting task keeps its future and keeps polling it, the pool runs
\* what it is given, the blocking call ends, the source gets ready.
NextLive ==
    \/ call_async(1)
    \/ send_async(1, Sources)
    \/ send_json_async(1)
    \/ send_bytes_async(1)
    \/ send_string_async(1)
    \/ send_form_async(1)
    \/ FirstPoll(1)
    \/ Poll(1)
    \/ OtherTaskStep
    \/ PoolStart(1)
    \/ \E n \in 1..MaxBuf : ReadProxy_call(1, n)
    \/ SourceReady(1)
    \/ ReadProxy_return(1)
    \/ PoolFinish(1)
    \/ PoolAbort(1)

Live ==
    /\ Init /\ [][NextLive]_vars
    /\ WF_vars(FirstPoll(1))
    /\ WF_vars(Poll(1))
    /\ WF_vars(PoolStart(1))
    /\ WF_vars(\E n \in 1..MaxBuf : ReadProxy_call(1, n))
    /\ WF_vars(SourceReady(1))
    /\ WF_vars(ReadProxy_return(1))
    /\ WF_vars(PoolFinish(1) \/ PoolAbort(1))

\* One send_async whose caller may wait for it synchronously on the scheduler
\* thread and whose source may be fed by a task of that scheduler.
NextHazard ==
    \/ send_async_fed(1, Sources)
    \/ FirstPoll(1)
    \/ SyncWait(1)
    \/ Poll(1)
    \/ SyncReturn(1)
    \/ Drop(1)
    \/ OtherTaskStep
    \/ PoolStart(1)
    \/ \E n \in 1..MaxBuf : ReadProxy_call(1, n)
    \/ SourceReady(1)
    \/ ReadProxy_return(1)
    \/ PoolFinish(1)
    \/ PoolAbort(1)

Hazard == Init /\ [][NextHazard]_vars

\* Two requests at once, every operation, one two-chunk source.
ConcurrentSources == {[chunks |-> <<<<1>>, <<2>>>>, end |-> "EOF"]}

NextConcurrent ==
    \/ \E c \in Calls : call_async(c)
    \/ \E c \in Calls : send_async(c, ConcurrentSources)
    \/ \E c \in Calls : send_json_async(c)
    \/ \E c \in Calls : send_bytes_async(c)
    \/ \E c \in Calls : send_string_async(c)
    \/ \E c \in Calls : send_form_async(c)
    \/ \E c \in Calls : FirstPoll(c)
    \/ \E c \in Calls : Poll(c)
    \/ \E c \in Calls : Drop(c)
    \/ \E c \in Calls : PoolStart(c)
    \/ \E c \in Calls : ReadProxy_call(c, MaxBuf)
    \/ \E c \in Calls : SourceReady(c)
    \/ \E c \in Calls : ReadProxy_return(c)
    \/ \E c \in Calls : PoolFinish(c)
    \/ \E c \in Calls : PoolAbort(c)

Concurrent == Init /\ [][NextConcurrent]_vars

----------------------------------------------------------------------------
\* Properties.

Started(c) == job[c] \in {"running", "reading", "done", "aborted"}
InFlight(c) == submits[c] > 0 /\ job[c] \in {"queued", "running", "reading"}
ReadEof(c) == lastRead[c].tag = "Ok" /\ lastRead[c].data = <<>>

\* C1: for every facade operation the blocking call, the serialization of
\* send_json and every wait of the read adapter run on a pool thread, never
\* on the scheduler thread, and the blocking entry point is invoked once.
C1_BlockingOnPoolThread ==
    \A c \in Calls :
        /\ \A e \in ev[c] : e[2] = "pool"
        /\ calls[c] <= 1
        /\ Started(c) => calls[c] = 1 /\ <<"call", "pool">> \in ev[c]
        /\ Started(c) /\ op[c] = "send_json_async" => <<"serialize", "pool">> \in ev[c]
        /\ job[c] = "reading" \/ lastRead[c].tag # "None" =>
              <<"adapter_wait", "pool">> \in ev[c]
        /\ caller[c] = "resumed" => calls[c] = 1

C1_Witness ==
    /\ op[1] = "send_async"
    /\ caller[1] = "resumed"
    /\ lastRead[1].parked
    /\ ev[1] = {<<"call", "pool">>, <<"adapter_wait", "pool">>}

\* C2: while a request is in flight the scheduler thread is not blocked: the
\* unrelated task can take a step in every such state, and under fair
\* scheduling of that task alone its counter advances, whether or not the
\* request ever completes.
C2_SchedulerNotBlocked ==
    /\ []((ticks < MaxTicks /\ \E c \in Calls : InFlight(c)) => ENABLED OtherTaskStep)
    /\ \A k \in 0..(MaxTicks - 1) :
          (ticks = k /\ \E c \in Calls : InFlight(c)) ~> (ticks > k)

C2_Witness ==
    /\ job[1] = "reading"
    /\ caller[1] = "suspended"
    /\ ticks = MaxTicks

\* C3: every operation submits one closure and suspends the calling task
\* there; the task resumes only once its own submission has resolved, with
\* that submission's outcome, whatever the other call is doing.
C3_OneSubmissionThenResume ==
    \A c \in Calls :
        /\ submits[c] <= 1
        /\ caller[c] \in {"suspended", "resumed", "panicked"} => submits[c] = 1
        /\ caller[c] = "suspended" => got[c] = None
        /\ caller[c] = "resumed" => job[c] = "done" /\ got[c].req = c
        /\ got[c] # None => job[c] = "done"

C3_Witness ==
    /\ caller[1] = "resumed"
    /\ caller[2] = "suspended"
    /\ job[2] = "reading"
    /\ seen[2] = <<1>>

\* C4: when the blocking call returns Err(e) the await produces Err(e)
\* unchanged, the blocking call was invoked once, and the failure never
\* becomes Ok.
C4_ErrPassedThrough ==
    \A c \in Calls :
        libRes[c].tag = "Err" =>
            /\ calls[c] = 1
            /\ got[c].tag # "Ok"
            /\ caller[c] = "resumed" => got[c] = libRes[c]
            /\ caller[c] # "panicked"

C4_Witness ==
    /\ op[1] = "send_json_async"
    /\ caller[1] = "resumed"
    /\ got[1] = Err(1, "Status")

\* C5: the await produces a value at most once, and that value is the Result
\* the blocking call returned on the pool thread.
C5_ResolvesOnceWithResult ==
    \A c \in Calls :
        /\ resolutions[c] <= 1
        /\ got[c] # None => resolutions[c] = 1 /\ got[c] = libRes[c] /\ thr[c] = "pool"
        /\ resolutions[c] = 1 => got[c] # None
        /\ caller[c] = "resumed" /\ libRes[c].tag = "Ok" => got[c] = libRes[c]

C5_Witness ==
    /\ caller[1] = "resumed"
    /\ resolutions[1] = 1
    /\ got[1] = Ok(1, "201")

C7_BytesInOrder ==
    \A c \in Calls :
        op[c] = "send_async" /\ Started(c) =>
            LET total == Flatten(payload[c].data.chunks)
            IN /\ seen[c] \o Flatten(src[c].chunks) = total
               /\ ReadEof(c) => seen[c] = total /\ payload[c].data.end = "EOF"

C7_Witness ==
    /\ op[1] = "send_async"
    /\ payload[1].data.chunks = <<<<1>>, <<2>>>>
    /\ seen[1] = <<1, 2>>
    /\ ReadEof(1)

\* C8: when the source reports an I/O error the read returns that error,
\* never Ok(0), and the blocking send fails with it.
C8_SourceErrorSurfaces ==
    \A c \in Calls :
        op[c] = "send_async" /\ lastRead[c].tag # "None" =>
            /\ lastRead[c].atEnd /\ payload[c].data.end # "EOF" =>
                  lastRead[c].tag = "Err" /\ lastRead[c].err = payload[c].data.end
            /\ payload[c].data.end # "EOF" => ~ReadEof(c)
            /\ lastRead[c].tag = "Err" /\ job[c] = "done" =>
                  libRes[c] = Err(c, payload[c].data.end)
            /\ lastRead[c].tag = "Err" /\ caller[c] = "resumed" =>
                  got[c] = Err(c, payload[c].data.end)

C8_Witness ==
    /\ op[1] = "send_async"
    /\ payload[1].data = [chunks |-> <<>>, end |-> "BrokenPipe"]
    /\ seen[1] = <<>>
    /\ caller[1] = "resumed"
    /\ got[1] = Err(1, "BrokenPipe")

\* C9: a read returns only once the source is ready: Ok(n) with
\* 1 <= n <= buf.len() when it has bytes, Ok(0) at end-of-stream, the I/O
\* error when it fails; until then the thread stays parked.
C9_ReadContract ==
    \A c \in Calls :
        /\ lastRead[c].tag # "None" =>
              LET r == lastRead[c]
              IN /\ r.wasReady
                 /\ r.tag \in {"Ok", "Err"}
                 /\ ~r.atEnd => /\ r.tag = "Ok"
                                /\ 1 <= Len(r.data)
                                /\ Len(r.data) <= r.n
                 /\ r.atEnd /\ payload[c].data.end = "EOF" =>
                       r.tag = "Ok" /\ r.data = <<>>
                 /\ r.atEnd /\ payload[c].data.end # "EOF" => r.tag = "Err"
        /\ job[c] = "reading" /\ ~src[c].ready => ~ENABLED ReadProxy_return(c)

C9_Witness ==
    /\ lastRead[1].tag = "Ok"
    /\ lastRead[1].parked
    /\ lastRead[1].n = 2
    /\ lastRead[1].data = <<2>>

\* C10: a closure that aborts is never delivered as Err: the awaiting task
\* panics and gets no value. A call ends resumed with the blocking call's
\* Result, or panicked with none.
C10_AbortIsNotErr ==
    \A c \in Calls :
        /\ job[c] = "aborted" => got[c] = None /\ caller[c] # "resumed"
        /\ caller[c] = "panicked" => job[c] = "aborted" /\ libRes[c] = None
        /\ caller[c] = "resumed" => /\ job[c] = "done"
                                    /\ libRes[c] # None
                                    /\ got[c] = libRes[c]
        /\ job[c] = "aborted" /\ caller[c] = "suspended" => ENABLED Poll(c)

C10_Witness ==
    /\ caller[1] = "panicked"
    /\ job[1] = "aborted"
    /\ calls[1] = 1

\* C11: a request is consumed exactly once: the operation takes it by value,
\* it is moved into one closure, the closure invokes the one blocking entry
\* point of that operation, and once an operation has taken the request no
\* operation can be called on it again.
C11_RequestConsumedOnce ==
    \A c \in Calls :
        /\ submits[c] <= 1
        /\ calls[c] <= 1
        /\ op[c] = "none" <=> owner[c] = "caller"
        /\ submits[c] = 1 => owner[c] \in {"closure", "dropped"}
        /\ calls[c] = 1 =>
              <<op[c], arg[c].entry>> \in
                  {<<"call_async", "call">>, <<"send_async", "send">>,
                   <<"send_json_async", "send_json">>,
                   <<"send_bytes_async", "send_bytes">>,
                   <<"send_string_async", "send_string">>,
                   <<"send_form_async", "send_form">>}
        /\ op[c] # "none" =>
              ~ENABLED (\/ call_async(c)
                        \/ send_async(c, Sources)
                        \/ send_json_async(c)
                        \/ send_bytes_async(c)
                        \/ send_string_async(c)
                        \/ send_form_async(c))

C11_Witness ==
    /\ op[1] = "send_bytes_async"
    /\ caller[1] = "resumed"
    /\ arg[1] = [entry |-> "send_bytes", data |-> <<1, 2>>]
    /\ owner[1] = "dropped"

\* C12: send_form_async hands the blocking send_form the pairs it was given:
\* as many, in the same order, each name and value the &str of the owned
\* original, and the originals live in the closure for as long as the
\* blocking call runs.
C12_FormPairsPassed ==
    \A c \in Calls :
        op[c] = "send_form_async" /\ calls[c] = 1 =>
            LET form == payload[c].data
                refs == arg[c].data
            IN /\ arg[c].entry = "send_form"
               /\ Len(refs) = Len(form)
               /\ \A i \in 1..Len(form) :
                     /\ refs[i][1] = form[i][1].owned
                     /\ refs[i][2] = form[i][2].owned
               /\ job[c] \in {"running", "reading"} => owner[c] = "closure"

C12_Witness ==
    /\ op[1] = "send_form_async"
    /\ arg[1] = [entry |-> "send_form", data |-> <<<<"a", "1">>, <<"b", "2">>>>]
    /\ caller[1] = "resumed"
    /\ got[1].tag = "Ok"

\* C13: two calls in flight at once run independently: whatever the other is
\* doing, a queued closure can be started, a running call can return and a
\* resolved call can be resumed, and each await yields the result of its
\* own blocking call.
C13_CallsIndependent ==
    \A c \in Calls :
        /\ job[c] = "queued" => ENABLED PoolStart(c)
        /\ job[c] = "running" => ENABLED PoolFinish(c)
        /\ caller[c] = "suspended" /\ job[c] = "done" => ENABLED Poll(c)
        /\ libRes[c] # None => libRes[c].req = c
        /\ caller[c] = "resumed" => got[c] = libRes[c] /\ got[c].req = c
        /\ \A d \in Calls \ {c} : got[c] # None => got[c].req # d

C13_Witness ==
    /\ submits[1] = 1
    /\ job[1] = "queued"
    /\ caller[2] = "resumed"
    /\ got[2] = Ok(2, "201")

\* C15: calling an operation submits nothing: the closure reaches the pool at
\* the future's first poll, and a future dropped unpolled leaves no
\* submission and no blocking call, the request and payload dropped unsent.
C15_LazySubmission ==
    \A c \in Calls :
        /\ caller[c] = "created" =>
              submits[c] = 0 /\ job[c] = "none" /\ owner[c] = "future"
        /\ caller[c] = "suspended" => submits[c] = 1
        /\ caller[c] = "dropped" /\ dropStage[c] = "none" =>
              /\ submits[c] = 0
              /\ calls[c] = 0
              /\ job[c] = "none"
              /\ ev[c] = {}
              /\ owner[c] = "dropped"

C15_Witness ==
    /\ op[1] = "send_async"
    /\ caller[1] = "dropped"
    /\ dropStage[1] = "none"
    /\ submits[1] = 0

\* C14: with a source only a task of the cooperative scheduler makes ready
\* and the scheduler thread waiting synchronously for the pool's result, the
\* pool thread parked in the adapter's read is a deadlock: no step is
\* enabled. When the handle is awaited cooperatively, or the source is fed
\* from outside, a parked read can always be made ready.
ParkedInRead(c) == job[c] = "reading" /\ ~src[c].ready

C14_DeadlockHazard ==
    \A c \in Calls :
        /\ ParkedInRead(c) /\ blockedOn = c /\ feeder[c] = "sched" => ~ENABLED NextHazard
        /\ ParkedInRead(c) /\ blockedOn = 0 => ENABLED SourceReady(c)
        /\ ParkedInRead(c) /\ feeder[c] = "external" => ENABLED SourceReady(c)
        /\ blockedOn = 0 /\ InFlight(c) => ~SchedulerBlocked

C14_Witness ==
    /\ ParkedInRead(1)
    /\ blockedOn = 1
    /\ feeder[1] = "sched"
    /\ seen[1] = <<1>>
    /\ ~ENABLED NextHazard

\* C16: when the awaiting task keeps polling, the pool runs the closure, the
\* blocking call ends and the source gets ready on every read, the await
\* ends: the task is resumed with the blocking call's Result once the call
\* has returned (or panics with the closure if that panicked).
C16_EventuallyResumed ==
    /\ (caller[1] = "created") ~> (caller[1] \in {"resumed", "panicked"})
    /\ (job[1] = "done") ~> (caller[1] = "resumed" /\ got[1] = libRes[1])
    /\ (job[1] = "reading") ~> (job[1] = "running")

C16_Witness ==
    /\ op[1] = "send_async"
    /\ lastRead[1].parked
    /\ seen[1] = <<1, 2>>
    /\ caller[1] = "resumed"
    /\ got[1].tag = "Ok"

====
